---- MODULE Spec2Model ----
(***************************************************************************)
(* A model of the nex node's warm-pool process managers and of the         *)
(* node-side agent client.                                                 *)
(*                                                                         *)
(*   Spec       FirecrackerProcessManager (firecracker_procman.go):        *)
(*              the fill loop of Start, PrepareWorkload, StopProcess,      *)
(*              Stop, EnterLameDuck and the root context.                  *)
(*   SpecMM     MachineManager (the earlier pool manager): fillPool,       *)
(*              TakeFromPool, StopMachine, Stop and the per-VM handshake   *)
(*              watchdog awaitHandshake.  FairSpecMM adds the scheduler's  *)
(*              fairness.                                                  *)
(*   SpecAgent  AgentClient (agent-api/client.go): Start, the handshake    *)
(*              handler and the handshake watchdog.                        *)
(*                                                                         *)
(* Every goroutine is a process with a program counter; a step is one      *)
(* statement (or one critical section under f.mutex).  Go statements that  *)
(* race on the maps are interleaved at statement granularity.              *)
(***************************************************************************)
EXTENDS Integers, Sequences, FiniteSets, TLC

\* ------------------------------------------------------------------ bounds
\* Number of uuids the fill loop may draw (uuid.NewRandom never repeats).
MaxVMs == 2
\* config.MachinePoolSize: the capacity of the poolVMs channel.
PoolSize == 1
\* Number of calls the environment makes in one run (PrepareWorkload,
\* StopProcess, Stop, EnterLameDuck, cancelling the root context).
MaxCalls == 2
\* config.MachinePoolSize of the MachineManager.
MMPoolSize == 2
\* Number of handshake messages a guest publishes to one agent client.
MaxMsgs == 2

\* --------------------------------------------------------------- constants
\* models.DefaultNodeVcpuCount, models.DefaultNodeMemSizeMib
VcpuCount == 1
MemSizeMib == 256

VmIds == 1 .. MaxVMs
\* An id no uuid draw ever produced (a caller's stale or foreign id).
UnknownId == MaxVMs + 1

Nil == "nil"

\* Callers of PrepareWorkload; each brings its own *AgentWorkloadInfo, which
\* is identified with the caller.
Preparers == {"p1", "p2"}
\* Callers of StopProcess.
Stoppers == {"s1", "s2"}
\* Callers of Stop.
StopCallers == {"t1", "t2"}

\* Fields of the deploy request a caller passes (AgentWorkloadInfo).
ReqNamespace(r) == "default"
ReqWorkloadName(r) == IF r = "p1" THEN "echo" ELSE "other"
ReqTotalBytes(r) == IF r = "p1" THEN 1024 ELSE 2048

\* Attribute sets of one instrument: the Add without attributes, and the Add
\* with attribute namespace=<ns> ("" is the namespace of an unstamped VM).
NoAttr == "noattr"
Series == {NoAttr, "", "default"}

VARIABLES
  closing,        \* f.closing (atomic uint32)
  poolVMs,        \* buffer of the channel f.poolVMs (vm ids, FIFO)
  poolClosed,     \* whether f.poolVMs has been closed
  allVMs,         \* keys of f.allVMs
  stopMutex,      \* keys of f.stopMutex
  deployRequests, \* f.deployRequests: vm id -> request
  vms,            \* the runningFirecracker objects, by vmmID
  essential,      \* request -> *req.Essential
  mutex,          \* holder of f.mutex, or Nil
  ctxDone,        \* f.ctx is cancelled
  nextId,         \* next uuid the fill loop draws
  credentials,    \* vm ids natsint.CreateCredentials minted a user for
  started,        \* vm ids passed to delegate.OnProcessStarted
  fill,           \* the goroutine running Start: [pc, vm]
  prep,           \* callers of PrepareWorkload
  stopper,        \* callers of StopProcess
  stopCaller,     \* callers of Stop
  lameDuck,       \* EnterLameDuck has been called
  t,              \* telemetry counters (f.t)
  crashed         \* Nil, or the unrecovered panic the process died of

VARIABLES
  mmCtxDone,      \* m.rootContext is cancelled
  mmAllVms,       \* keys of m.allVms
  mmWarm,         \* buffer of the channel m.warmVms
  mmVms,          \* the runningFirecracker objects of the MachineManager
  mmNextId,       \* next vm id createAndStartVM assigns
  mmFill,         \* the goroutine running fillPool: [pc, vm]
  mmHandshakes,   \* keys of m.handshakes
  mmWatch,        \* the awaitHandshake goroutine of each vm
  mmStop,         \* callers of MachineManager.Stop: where each is
  mmTaker,        \* callers of TakeFromPool
  mmExit          \* Nil, or how the node process ended: "os.Exit(1)", "panic"

VARIABLES
  acStarted,           \* AgentClient.Start has subscribed
  acHandshakeReceived, \* a.handshakeReceived (atomic.Bool)
  acInbox,             \* messages pending on agentint.<id>.handshake
  acHandler,           \* the subscription's goroutine in handleHandshake
  acWatchdog,          \* the goroutine running awaitHandshake
  acCalls,             \* the handshake callbacks invoked, in order
  acResponses,         \* HandshakeResponses sent to the guest
  acPublished,         \* handshake messages the guest has published
  acCrashed,           \* the node died of a panic in a handler
  acSubs,              \* subjects the agent client is subscribed to
  acDeploy,            \* the caller of DeployWorkload: [pc, reply, err, ...]
  acWorkloadStartedAt, \* a.workloadStartedAt has been set
  agent,               \* the in-guest Agent: "off", "advertised", "started"
  agSubs,              \* subjects the in-guest Agent is subscribed to
  agAdvertiseLost,     \* the advertise message reached no subscription
  envResponder,        \* some guest serves requests on the deploy subject
  agWork,              \* handleWorkDispatched: [pc, outcome] of the request in hand
  agRequests,          \* work requests delivered to the in-guest agent
  agAcks,              \* the workAck calls so far: <<outcome, accepted, sent>>
  agExecuted           \* outcomes of the requests whose provider.Execute was called

fpmVars == <<closing, poolVMs, poolClosed, allVMs, stopMutex, deployRequests,
             vms, essential, mutex, ctxDone, nextId, credentials, started,
             fill, prep, stopper, stopCaller, lameDuck, t, crashed>>

mmVars == <<mmCtxDone, mmAllVms, mmWarm, mmVms, mmNextId, mmFill,
            mmHandshakes, mmWatch, mmStop, mmTaker, mmExit>>

\* The agent client's deploy side and the in-guest agent.
acxVars == <<acSubs, acDeploy, acWorkloadStartedAt, agent, agSubs,
             agAdvertiseLost, envResponder>>

\* The in-guest agent's handling of work requests.
agwVars == <<agWork, agRequests, agAcks, agExecuted>>

acVars == <<acStarted, acHandshakeReceived, acInbox, acHandler, acWatchdog,
            acCalls, acResponses, acPublished, acCrashed, acxVars, agwVars>>

vars == <<fpmVars, mmVars, acVars>>

\* ------------------------------------------------------------ construction
ZeroSeries == [s \in Series |-> 0]

NewVm == [deployRequest |-> Nil, namespace |-> "", workloadStarted |-> FALSE,
          running |-> FALSE, shutdowns |-> 0]

\* NewFirecrackerProcessManager, and the idle callers.
InitFPM ==
  /\ closing = 0
  /\ poolVMs = <<>>
  /\ poolClosed = FALSE
  /\ allVMs = {}
  /\ stopMutex = {}
  /\ deployRequests = << >>
  /\ vms = [v \in VmIds |-> NewVm]
  /\ essential = [r \in Preparers |-> TRUE]
  /\ mutex = Nil
  /\ ctxDone = FALSE
  /\ nextId = 1
  /\ credentials = {}
  /\ started = {}
  /\ fill = [pc |-> "idle", vm |-> Nil]
  /\ prep = [p \in Preparers |-> [pc |-> "idle", onClosed |-> FALSE,
                                  result |-> Nil, vm |-> Nil]]
  /\ stopper = [s \in Stoppers |-> [pc |-> "idle", id |-> Nil, result |-> Nil]]
  /\ stopCaller = [c \in StopCallers |->
                    [pc |-> "idle", teardown |-> FALSE, todo |-> {},
                     id |-> Nil, result |-> Nil]]
  /\ lameDuck = FALSE
  /\ t = [vm |-> 0, vcpu |-> ZeroSeries, mem |-> ZeroSeries,
          workload |-> ZeroSeries, bytes |-> ZeroSeries]
  /\ crashed = Nil

\* ------------------------------------------------------------------ helpers
\* counter.Add(ctx, n) followed by counter.Add(ctx, n, namespace=ns)
AddPair(c, n, ns) == [c EXCEPT ![NoAttr] = @ + n, ![ns] = @ + n]

\* delete(m, k) on a map held as a function
MapDelete(m, k) == [x \in DOMAIN m \ {k} |-> m[x]]
\* m[k] = val
MapPut(m, k, val) == [x \in DOMAIN m \cup {k} |-> IF x = k THEN val ELSE m[x]]

\* f.stopping()
stopping == closing > 0

\* The ids a caller can name: those the delegate was told of (line 202).
KnownIds == started

\* Calls the environment has made so far.
Calls ==
  Cardinality({p \in Preparers : prep[p].pc # "idle"})
  + Cardinality({s \in Stoppers : stopper[s].pc # "idle"})
  + Cardinality({c \in StopCallers : stopCaller[c].pc # "idle"})
  + (IF lameDuck THEN 1 ELSE 0) + (IF ctxDone THEN 1 ELSE 0)

MayCall == crashed = Nil /\ Calls < MaxCalls

\* ------------------------------------------------------------------- Start
\* Start up to the loop: the delegate is set, the network reset.
StartCall ==
  /\ crashed = Nil
  /\ fill.pc = "idle"
  /\ fill' = [fill EXCEPT !.pc = "loop"]
  /\ UNCHANGED <<closing, poolVMs, poolClosed, allVMs, stopMutex,
                 deployRequests, vms, essential, mutex, ctxDone, nextId,
                 credentials, started, prep, stopper, stopCaller, lameDuck,
                 t, crashed>>
  /\ UNCHANGED <<mmVars, acVars>>

\* The loop head taking the channel for full one vm early.  C18 does not
\* hold of this variant.
FillLoopStopsShort ==
  /\ crashed = Nil
  /\ fill.pc = "loop"
  /\ fill' = [fill EXCEPT !.pc =
                IF stopping \/ ctxDone THEN "returned"
                ELSE IF Len(poolVMs) >= PoolSize - 1 THEN "loop"
                ELSE "create"]
  /\ UNCHANGED <<closing, poolVMs, poolClosed, allVMs, stopMutex,
                 deployRequests, vms, essential, mutex, ctxDone, nextId,
                 credentials, started, prep, stopper, stopCaller, lameDuck,
                 t, crashed>>
  /\ UNCHANGED <<mmVars, acVars>>

\* The loop head without the test of line 161: the loop goes on to create a
\* vm although the channel is full.  C11 does not hold of this variant.
FillLoopNoLenCheck ==
  /\ crashed = Nil
  /\ fill.pc = "loop"
  /\ fill' = [fill EXCEPT !.pc =
                IF stopping \/ ctxDone THEN "returned" ELSE "create"]
  /\ UNCHANGED <<closing, poolVMs, poolClosed, allVMs, stopMutex,
                 deployRequests, vms, essential, mutex, ctxDone, nextId,
                 credentials, started, prep, stopper, stopCaller, lameDuck,
                 t, crashed>>
  /\ UNCHANGED <<mmVars, acVars>>

\* Lines 156-164, one turn of the loop head: for !f.stopping(), then
\* select { case <-f.ctx.Done(): return nil; default: ... } and the sleep
\* while the pool is full.
FillLoop ==
  /\ crashed = Nil
  /\ fill.pc = "loop"
  /\ fill' = [fill EXCEPT !.pc =
                IF stopping \/ ctxDone THEN "returned"
                ELSE IF Len(poolVMs) = PoolSize THEN "loop"
                ELSE "create"]
  /\ UNCHANGED <<closing, poolVMs, poolClosed, allVMs, stopMutex,
                 deployRequests, vms, essential, mutex, ctxDone, nextId,
                 credentials, started, prep, stopper, stopCaller, lameDuck,
                 t, crashed>>
  /\ UNCHANGED <<mmVars, acVars>>

\* What one pass through uuid / CreateCredentials / createAndStartVM /
\* Seed / setMetadata can end in.
CreateOutcomes ==
  {"credsFailed", "vmFailed", "seedFailed", "metadataFailed", "panicked", "ok"}

\* The fill loop ending at the first failure instead of continuing.  C17
\* does not hold of this variant.
FillCreateAborts ==
  /\ crashed = Nil
  /\ fill.pc = "create"
  /\ nextId <= MaxVMs
  /\ \E outcome \in CreateOutcomes :
       /\ nextId' = nextId + 1
       /\ credentials' = IF outcome = "credsFailed" THEN credentials
                         ELSE credentials \cup {nextId}
       /\ vms' = IF outcome \in {"credsFailed", "vmFailed", "panicked"} THEN vms
                 ELSE [vms EXCEPT ![nextId].running = TRUE]
       /\ fill' = CASE outcome = "ok" -> [pc |-> "register", vm |-> nextId]
                    [] outcome = "panicked" -> [pc |-> "recovered", vm |-> Nil]
                    [] OTHER -> [pc |-> "returned", vm |-> Nil]
  /\ UNCHANGED <<closing, poolVMs, poolClosed, allVMs, stopMutex,
                 deployRequests, essential, mutex, ctxDone, started, prep,
                 stopper, stopCaller, lameDuck, t, crashed>>
  /\ UNCHANGED <<mmVars, acVars>>

\* Lines 166-195: draw a uuid, mint credentials, create and boot the VM,
\* resolve the seed, set the metadata.  Every failure logs and continues.
\* A panic in one of the callees (here: in createAndStartVM) unwinds to the
\* deferred recover of lines 143-147, which logs it; Start then returns.
FillCreate ==
  /\ crashed = Nil
  /\ fill.pc = "create"
  /\ nextId <= MaxVMs
  /\ \E outcome \in CreateOutcomes :
       /\ nextId' = nextId + 1
       /\ credentials' = IF outcome = "credsFailed" THEN credentials
                         ELSE credentials \cup {nextId}
       /\ vms' = IF outcome \in {"credsFailed", "vmFailed", "panicked"} THEN vms
                 ELSE [vms EXCEPT ![nextId].running = TRUE]
       /\ fill' = CASE outcome = "ok" -> [pc |-> "register", vm |-> nextId]
                    [] outcome = "panicked" -> [pc |-> "recovered", vm |-> Nil]
                    [] OTHER -> [pc |-> "loop", vm |-> Nil]
  /\ UNCHANGED <<closing, poolVMs, poolClosed, allVMs, stopMutex,
                 deployRequests, essential, mutex, ctxDone, started, prep,
                 stopper, stopCaller, lameDuck, t, crashed>>
  /\ UNCHANGED <<mmVars, acVars>>

\* A range over f.allVMs that is in progress in another goroutine may or may
\* not produce an entry created meanwhile.
RangeSees(c, v, sees) ==
  IF stopCaller[c].pc = "range" /\ c \in sees
  THEN [stopCaller[c] EXCEPT !.todo = @ \cup {v}]
  ELSE stopCaller[c]

\* Line 197: f.allVMs[vm.vmmID] = vm
FillRegister ==
  /\ crashed = Nil
  /\ fill.pc = "register"
  /\ allVMs' = allVMs \cup {fill.vm}
  /\ \E sees \in SUBSET {c \in StopCallers : stopCaller[c].pc = "range"} :
       stopCaller' = [c \in StopCallers |-> RangeSees(c, fill.vm, sees)]
  /\ fill' = [fill EXCEPT !.pc = "register2"]
  /\ UNCHANGED <<closing, poolVMs, poolClosed, stopMutex, deployRequests, vms,
                 essential, mutex, ctxDone, nextId, credentials, started, prep,
                 stopper, lameDuck, t, crashed>>
  /\ UNCHANGED <<mmVars, acVars>>

\* Lines 198-202: the stop mutex, the VM counter, OnProcessStarted
FillRegisterMutex ==
  /\ crashed = Nil
  /\ fill.pc = "register2"
  /\ stopMutex' = stopMutex \cup {fill.vm}
  /\ t' = [t EXCEPT !.vm = @ + 1]
  /\ started' = started \cup {fill.vm}
  /\ fill' = [fill EXCEPT !.pc = "send"]
  /\ UNCHANGED <<closing, poolVMs, poolClosed, allVMs, deployRequests, vms,
                 essential, mutex, ctxDone, nextId, credentials, prep, stopper,
                 stopCaller, lameDuck, crashed>>
  /\ UNCHANGED <<mmVars, acVars>>

\* Line 205: f.poolVMs <- vm.  A send on a closed channel panics; the
\* deferred recover of Start catches it and Start returns ("recovered").  A send on a full
\* channel blocks.
FillSend ==
  /\ crashed = Nil
  /\ fill.pc = "send"
  /\ poolClosed \/ Len(poolVMs) < PoolSize
  /\ IF poolClosed
     THEN /\ fill' = [pc |-> "recovered", vm |-> Nil]
          /\ UNCHANGED poolVMs
     ELSE /\ poolVMs' = Append(poolVMs, fill.vm)
          /\ fill' = [pc |-> "loop", vm |-> Nil]
  /\ UNCHANGED <<closing, poolClosed, allVMs, stopMutex, deployRequests, vms,
                 essential, mutex, ctxDone, nextId, credentials, started, prep,
                 stopper, stopCaller, lameDuck, t, crashed>>
  /\ UNCHANGED <<mmVars, acVars>>

\* ---------------------------------------------------------- PrepareWorkload
\* The call and line 99, f.mutex.Lock(): a caller that waits for the mutex
\* is a caller that calls later.
PrepareCall(p) ==
  /\ MayCall
  /\ prep[p].pc = "idle"
  /\ mutex = Nil
  /\ mutex' = p
  /\ prep' = [prep EXCEPT ![p].pc = "recv", ![p].onClosed = poolClosed]
  /\ UNCHANGED <<closing, poolVMs, poolClosed, allVMs, stopMutex,
                 deployRequests, vms, essential, ctxDone, nextId, credentials,
                 started, fill, stopper, stopCaller, lameDuck, t, crashed>>
  /\ UNCHANGED <<mmVars, acVars>>

\* Lines 107-116: stamp the VM, record the request, add to the counters.
Stamp(v, r) ==
  /\ vms' = [vms EXCEPT ![v].deployRequest = r,
                        ![v].namespace = ReqNamespace(r),
                        ![v].workloadStarted = TRUE]
  /\ deployRequests' = MapPut(deployRequests, v, r)
  /\ t' = [t EXCEPT !.vcpu = AddPair(@, VcpuCount, ReqNamespace(r)),
                    !.mem = AddPair(@, MemSizeMib, ReqNamespace(r))]

\* PrepareWorkload reading the head of the buffer without taking it out of
\* the channel.  C12 and C20 do not hold of this variant.
PrepareRecvPeek(p) ==
  /\ crashed = Nil
  /\ prep[p].pc = "recv"
  /\ poolVMs # <<>> \/ poolClosed
  /\ IF poolVMs # <<>>
     THEN /\ poolVMs' = poolVMs
          /\ Stamp(Head(poolVMs), p)
          /\ prep' = [prep EXCEPT ![p].pc = "done", ![p].result = "ok",
                                  ![p].vm = Head(poolVMs)]
     ELSE /\ prep' = [prep EXCEPT ![p].pc = "done",
                                  ![p].result = "NoVmAvailable"]
          /\ UNCHANGED <<poolVMs, vms, deployRequests, t>>
  /\ mutex' = Nil
  /\ UNCHANGED <<closing, poolClosed, allVMs, stopMutex, essential, ctxDone,
                 nextId, credentials, started, fill, stopper, stopCaller,
                 lameDuck, crashed>>
  /\ UNCHANGED <<mmVars, acVars>>

\* Lines 102-118, holding f.mutex: vm := <-f.poolVMs.  A receive yields the
\* head of the buffer, also when the channel is closed; on a closed and
\* empty channel it yields nil; on an open and empty channel it blocks.
PrepareRecv(p) ==
  /\ crashed = Nil
  /\ prep[p].pc = "recv"
  /\ poolVMs # <<>> \/ poolClosed
  /\ IF poolVMs # <<>>
     THEN /\ poolVMs' = Tail(poolVMs)
          /\ Stamp(Head(poolVMs), p)
          /\ prep' = [prep EXCEPT ![p].pc = "done", ![p].result = "ok",
                                  ![p].vm = Head(poolVMs)]
     ELSE /\ prep' = [prep EXCEPT ![p].pc = "done",
                                  ![p].result = "NoVmAvailable"]
          /\ UNCHANGED <<poolVMs, vms, deployRequests, t>>
  /\ mutex' = Nil
  /\ UNCHANGED <<closing, poolClosed, allVMs, stopMutex, essential, ctxDone,
                 nextId, credentials, started, fill, stopper, stopCaller,
                 lameDuck, crashed>>
  /\ UNCHANGED <<mmVars, acVars>>

\* -------------------------------------------------------------- StopProcess
\* Lines 232-243: the counters StopProcess takes back for vm v.
StopCounters(v) ==
  LET ns == vms[v].namespace
      r == vms[v].deployRequest
      t1 == IF r # Nil
            THEN [t EXCEPT !.workload = AddPair(@, -1, ns),
                           !.bytes = AddPair(@, -ReqTotalBytes(r), ns)]
            ELSE t
  IN [t1 EXCEPT !.vm = @ - 1,
                !.vcpu = AddPair(@, -VcpuCount, ns),
                !.mem = AddPair(@, -MemSizeMib, ns)]

\* What StopProcess(id) returns: the lookup of line 216.
StopResult(id) == IF id \in allVMs THEN "ok" ELSE "NotFound"

\* StopProcess without the return of lines 217-219: the VM counter is taken
\* back also for an id that is not in f.allVMs.  C13 does not hold of this
\* variant.
StopBodyNoReturn(id) ==
  IF id \in allVMs
  THEN /\ vms' = [vms EXCEPT ![id].shutdowns = @ + 1, ![id].running = FALSE]
       /\ allVMs' = allVMs \ {id}
       /\ deployRequests' = MapDelete(deployRequests, id)
       /\ stopMutex' = stopMutex \ {id}
       /\ t' = StopCounters(id)
  ELSE /\ t' = [t EXCEPT !.vm = @ - 1]
       /\ UNCHANGED <<vms, allVMs, deployRequests, stopMutex>>

\* StopProcess without the delete of line 228: the vm stays in f.allVMs, so
\* a second call finds it again.  C9 does not hold of this variant.
StopBodyNoDelete(id) ==
  IF id \in allVMs
  THEN /\ vms' = [vms EXCEPT ![id].shutdowns = @ + 1, ![id].running = FALSE]
       /\ allVMs' = allVMs
       /\ deployRequests' = MapDelete(deployRequests, id)
       /\ stopMutex' = stopMutex
       /\ t' = StopCounters(id)
  ELSE UNCHANGED <<vms, allVMs, deployRequests, stopMutex, t>>

\* Lines 216-245 under f.mutex, for an id whose stop mutex exists (or that
\* is unknown): shutdown, the three deletes, the counters.
StopBody(id) ==
  IF id \in allVMs
  THEN /\ vms' = [vms EXCEPT ![id].shutdowns = @ + 1, ![id].running = FALSE]
       /\ allVMs' = allVMs \ {id}
       /\ deployRequests' = MapDelete(deployRequests, id)
       /\ stopMutex' = stopMutex \ {id}
       /\ t' = StopCounters(id)
  ELSE UNCHANGED <<vms, allVMs, deployRequests, stopMutex, t>>

\* Line 221-222: f.stopMutex[id] is nil between lines 197 and 198 of the
\* fill loop; locking it is a nil dereference.
StopPanics(id) == id \in allVMs /\ id \notin stopMutex

\* The call: the caller queues for f.mutex.
StopProcessCall(s, id) ==
  /\ MayCall
  /\ stopper[s].pc = "idle"
  /\ stopper' = [stopper EXCEPT ![s].pc = "lock", ![s].id = id]
  /\ UNCHANGED <<closing, poolVMs, poolClosed, allVMs, stopMutex,
                 deployRequests, vms, essential, mutex, ctxDone, nextId,
                 credentials, started, fill, prep, stopCaller, lameDuck,
                 t, crashed>>
  /\ UNCHANGED <<mmVars, acVars>>

\* Lines 213-245: the whole body runs under f.mutex.
StopProcess(s) ==
  /\ crashed = Nil
  /\ stopper[s].pc = "lock"
  /\ mutex = Nil
  /\ IF StopPanics(stopper[s].id)
     THEN /\ crashed' = "nil stop mutex"
          /\ UNCHANGED <<vms, allVMs, deployRequests, stopMutex, t, stopper>>
     ELSE /\ StopBody(stopper[s].id)
          /\ stopper' = [stopper EXCEPT ![s].pc = "done",
                                        ![s].result = StopResult(stopper[s].id)]
          /\ UNCHANGED crashed
  /\ UNCHANGED <<closing, poolVMs, poolClosed, essential, mutex, ctxDone,
                 nextId, credentials, started, fill, prep, stopCaller,
                 lameDuck>>
  /\ UNCHANGED <<mmVars, acVars>>

\* --------------------------------------------------------------------- Stop
\* Stop without the comparison of line 122: every call runs the teardown.
\* C10 does not hold of this variant.
StopEnterAlways(c) ==
  /\ MayCall
  /\ stopCaller[c].pc = "idle"
  /\ closing' = closing + 1
  /\ stopCaller' = [stopCaller EXCEPT ![c].pc = "close", ![c].teardown = TRUE]
  /\ UNCHANGED <<poolVMs, poolClosed, allVMs, stopMutex, deployRequests, vms,
                 essential, mutex, ctxDone, nextId, credentials, started, fill,
                 prep, stopper, lameDuck, t, crashed>>
  /\ UNCHANGED <<mmVars, acVars>>

\* Line 122: atomic.AddUint32(&f.closing, 1) == 1
StopEnter(c) ==
  /\ MayCall
  /\ stopCaller[c].pc = "idle"
  /\ closing' = closing + 1
  /\ stopCaller' = [stopCaller EXCEPT ![c] =
                      IF closing + 1 = 1
                      THEN [@ EXCEPT !.pc = "close", !.teardown = TRUE]
                      ELSE [@ EXCEPT !.pc = "done", !.result = "ok"]]
  /\ UNCHANGED <<poolVMs, poolClosed, allVMs, stopMutex, deployRequests, vms,
                 essential, mutex, ctxDone, nextId, credentials, started, fill,
                 prep, stopper, lameDuck, t, crashed>>
  /\ UNCHANGED <<mmVars, acVars>>

\* Line 124: close(f.poolVMs); closing a closed channel panics.  Line 126
\* starts the range over f.allVMs.
StopClose(c) ==
  /\ crashed = Nil
  /\ stopCaller[c].pc = "close"
  /\ IF poolClosed
     THEN /\ crashed' = "close of closed channel"
          /\ UNCHANGED <<poolClosed, stopCaller>>
     ELSE /\ poolClosed' = TRUE
          /\ stopCaller' = [stopCaller EXCEPT ![c].pc = "range",
                                              ![c].todo = allVMs]
          /\ UNCHANGED crashed
  /\ UNCHANGED <<closing, poolVMs, allVMs, stopMutex, deployRequests, vms,
                 essential, mutex, ctxDone, nextId, credentials, started, fill,
                 prep, stopper, lameDuck, t>>
  /\ UNCHANGED <<mmVars, acVars>>

\* Line 126: the range produces the next entry; an entry deleted meanwhile
\* is not produced.  With nothing left the loop ends, and lines 133-136
\* (cleanSockets, return nil) follow.
StopRange(c) ==
  /\ crashed = Nil
  /\ stopCaller[c].pc = "range"
  /\ LET left == stopCaller[c].todo \cap allVMs
     IN IF left = {}
        THEN stopCaller' = [stopCaller EXCEPT ![c].pc = "done", ![c].todo = {},
                                             ![c].result = "ok"]
        ELSE \E id \in left :
               stopCaller' = [stopCaller EXCEPT ![c].pc = "stop",
                                ![c].id = id, ![c].todo = left \ {id}]
  /\ UNCHANGED <<closing, poolVMs, poolClosed, allVMs, stopMutex,
                 deployRequests, vms, essential, mutex, ctxDone, nextId,
                 credentials, started, fill, prep, stopper, lameDuck, t,
                 crashed>>
  /\ UNCHANGED <<mmVars, acVars>>

\* Line 127: f.StopProcess(vmID); an error is logged.
StopStopProcess(c) ==
  /\ crashed = Nil
  /\ stopCaller[c].pc = "stop"
  /\ mutex = Nil
  /\ IF StopPanics(stopCaller[c].id)
     THEN /\ crashed' = "nil stop mutex"
          /\ UNCHANGED <<vms, allVMs, deployRequests, stopMutex, t, stopCaller>>
     ELSE /\ StopBody(stopCaller[c].id)
          /\ stopCaller' = [stopCaller EXCEPT ![c].pc = "range", ![c].id = Nil]
          /\ UNCHANGED crashed
  /\ UNCHANGED <<closing, poolVMs, poolClosed, essential, mutex, ctxDone,
                 nextId, credentials, started, fill, prep, stopper, lameDuck>>
  /\ UNCHANGED <<mmVars, acVars>>

\* ------------------------------------------------------------ ListProcesses
\* ListProcesses without the test of line 73.  C19 does not hold of this
\* variant.
ListProcessesAll ==
  {[ID |-> v,
    Name |-> ReqWorkloadName(vms[v].deployRequest),
    Namespace |-> ReqNamespace(vms[v].deployRequest),
    DeployRequest |-> vms[v].deployRequest] : v \in allVMs}

\* Lines 68-85: one ProcessInfo for every entry of f.allVMs whose vm has a
\* deploy request.
ListProcesses ==
  {[ID |-> v,
    Name |-> ReqWorkloadName(vms[v].deployRequest),
    Namespace |-> ReqNamespace(vms[v].deployRequest),
    DeployRequest |-> vms[v].deployRequest] :
      v \in {x \in allVMs : vms[x].deployRequest # Nil}}

\* ------------------------------------------------------------ EnterLameDuck
\* Lines 87-95: every recorded deploy request gets Essential = &false.
EnterLameDuck ==
  /\ MayCall
  /\ ~lameDuck
  /\ lameDuck' = TRUE
  /\ essential' = [r \in Preparers |->
                     IF \E v \in DOMAIN deployRequests : deployRequests[v] = r
                     THEN FALSE ELSE essential[r]]
  /\ UNCHANGED <<closing, poolVMs, poolClosed, allVMs, stopMutex,
                 deployRequests, vms, mutex, ctxDone, nextId, credentials,
                 started, fill, prep, stopper, stopCaller, t, crashed>>
  /\ UNCHANGED <<mmVars, acVars>>

\* The owner of the root context cancels it.
CancelCtx ==
  /\ MayCall
  /\ ~ctxDone
  /\ ctxDone' = TRUE
  /\ UNCHANGED <<closing, poolVMs, poolClosed, allVMs, stopMutex,
                 deployRequests, vms, essential, mutex, nextId, credentials,
                 started, fill, prep, stopper, stopCaller, lameDuck, t,
                 crashed>>
  /\ UNCHANGED <<mmVars, acVars>>

\* ========================================================== MachineManager
\* The supply of vm ids of the MachineManager: one vm more than the pool
\* size, so that a vm can be created while the pool is full.
MMMaxVMs == MMPoolSize + 1
MMVmIds == 1 .. MMMaxVMs
\* The caller of Stop that is not a watchdog (the node shutting down); the
\* watchdog of vm v calls Stop as caller v.
NodeCaller == MMMaxVMs + 1
MMStopCallers == MMVmIds \cup {NodeCaller}
\* Callers of TakeFromPool.
Takers == {"k1", "k2"}

\* warmVms made with capacity config.MachinePoolSize: with the vm the fill
\* loop holds while it waits to send, one vm more than the pool size.  C30
\* does not hold of this variant.
WarmCapacityFull == MMPoolSize

\* NewMachineManager: warmVms has capacity config.MachinePoolSize-1.
WarmCapacity == MMPoolSize - 1

InitMM ==
  /\ mmCtxDone = FALSE
  /\ mmAllVms = {}
  /\ mmWarm = <<>>
  /\ mmVms = [v \in MMVmIds |-> [running |-> FALSE, shutdowns |-> 0]]
  /\ mmNextId = 1
  /\ mmFill = [pc |-> "idle", vm |-> Nil]
  /\ mmHandshakes = {}
  /\ mmWatch = [v \in MMVmIds |-> "none"]
  /\ mmStop = [k \in MMStopCallers |-> "idle"]
  /\ mmTaker = [k \in Takers |-> [pc |-> "idle", vm |-> Nil]]
  /\ mmExit = Nil

MMCalls ==
  Cardinality({k \in Takers : mmTaker[k].pc # "idle"})
  + (IF mmStop[NodeCaller] # "idle" THEN 1 ELSE 0)

\* The calls of vm.shutDown() are counted up to "more than once".
MMCount(n) == IF n < 2 THEN n + 1 ELSE n

\* vm.shutDown()
MMShutDown(v) ==
  [mmVms EXCEPT ![v].running = FALSE, ![v].shutdowns = MMCount(@)]

\* Start: the subscriptions, then go m.fillPool().
MMStart ==
  /\ mmExit = Nil
  /\ mmFill.pc = "idle"
  /\ mmFill' = [mmFill EXCEPT !.pc = "select"]
  /\ UNCHANGED <<mmCtxDone, mmAllVms, mmWarm, mmVms, mmNextId, mmHandshakes,
                 mmWatch, mmStop, mmTaker, mmExit>>
  /\ UNCHANGED <<fpmVars, acVars>>

\* fillPool, lines 215-219: select on rootContext.Done() with a default.
MMFillSelect ==
  /\ mmExit = Nil
  /\ mmFill.pc = "select"
  /\ mmFill' = [mmFill EXCEPT !.pc = IF mmCtxDone THEN "returned" ELSE "create"]
  /\ UNCHANGED <<mmCtxDone, mmAllVms, mmWarm, mmVms, mmNextId, mmHandshakes,
                 mmWatch, mmStop, mmTaker, mmExit>>
  /\ UNCHANGED <<fpmVars, acVars>>

\* fillPool, lines 220-227: createAndStartVM; a failure panics, which ends
\* the process (exit code 2); on success go m.awaitHandshake(vm.vmmID).
MMFillCreate ==
  /\ mmExit = Nil
  /\ mmFill.pc = "create"
  /\ mmNextId <= MMMaxVMs
  /\ \E ok \in BOOLEAN :
       IF ok
       THEN /\ mmVms' = [mmVms EXCEPT ![mmNextId].running = TRUE]
            /\ mmWatch' = [mmWatch EXCEPT ![mmNextId] = "sleeping"]
            /\ mmFill' = [pc |-> "send", vm |-> mmNextId]
            /\ mmNextId' = mmNextId + 1
            /\ UNCHANGED mmExit
       ELSE /\ mmExit' = "panic"
            /\ UNCHANGED <<mmVms, mmWatch, mmFill, mmNextId>>
  /\ UNCHANGED <<mmCtxDone, mmAllVms, mmWarm, mmHandshakes, mmStop, mmTaker>>
  /\ UNCHANGED <<fpmVars, acVars>>

\* fillPool, line 231: m.warmVms <- vm, into a free slot of the buffer.
MMFillSend ==
  /\ mmExit = Nil
  /\ mmFill.pc = "send"
  /\ Len(mmWarm) < WarmCapacity
  /\ mmWarm' = Append(mmWarm, mmFill.vm)
  /\ mmFill' = [mmFill EXCEPT !.pc = "register"]
  /\ UNCHANGED <<mmCtxDone, mmAllVms, mmVms, mmNextId, mmHandshakes, mmWatch,
                 mmStop, mmTaker, mmExit>>
  /\ UNCHANGED <<fpmVars, acVars>>

\* fillPool, line 234: m.allVms[vm.vmmID] = vm, once the send has completed.
MMFillRegister ==
  /\ mmExit = Nil
  /\ mmFill.pc = "register"
  /\ mmAllVms' = mmAllVms \cup {mmFill.vm}
  /\ mmFill' = [pc |-> "select", vm |-> Nil]
  /\ UNCHANGED <<mmCtxDone, mmWarm, mmVms, mmNextId, mmHandshakes, mmWatch,
                 mmStop, mmTaker, mmExit>>
  /\ UNCHANGED <<fpmVars, acVars>>

\* A receive on m.warmVms can complete: a value is buffered, or the fill
\* loop is blocked in its send.
MMCanRecv == mmWarm # <<>> \/ mmFill.pc = "send"
\* The value a receive yields.
MMRecvVm == IF mmWarm # <<>> THEN Head(mmWarm) ELSE mmFill.vm
\* The channel and the sender after a receive: the head leaves the buffer
\* and a sender blocked on the full buffer moves its value in; on an empty
\* buffer the value passes from the sender directly.
MMRecv ==
  IF mmWarm # <<>>
  THEN IF mmFill.pc = "send" /\ Len(mmWarm) = WarmCapacity
       THEN /\ mmWarm' = Append(Tail(mmWarm), mmFill.vm)
            /\ mmFill' = [mmFill EXCEPT !.pc = "register"]
       ELSE /\ mmWarm' = Tail(mmWarm)
            /\ UNCHANGED mmFill
  ELSE /\ mmFill' = [mmFill EXCEPT !.pc = "register"]
       /\ UNCHANGED mmWarm

\* TakeFromPool: running := <-m.warmVms
MMTakeFromPool(k) ==
  /\ mmExit = Nil
  /\ MMCalls < MaxCalls
  /\ mmTaker[k].pc = "idle"
  /\ MMCanRecv
  /\ MMRecv
  /\ mmTaker' = [mmTaker EXCEPT ![k] = [pc |-> "done", vm |-> MMRecvVm]]
  /\ UNCHANGED <<mmCtxDone, mmAllVms, mmVms, mmNextId, mmHandshakes, mmWatch,
                 mmStop, mmExit>>
  /\ UNCHANGED <<fpmVars, acVars>>

\* StopMachine(vmId) for an id in m.allVms: shutDown, delete.
MMStopMachine(v) ==
  /\ mmExit = Nil
  /\ v \in mmAllVms
  /\ mmVms' = MMShutDown(v)
  /\ mmAllVms' = mmAllVms \ {v}
  /\ UNCHANGED <<mmCtxDone, mmWarm, mmNextId, mmFill, mmHandshakes, mmWatch,
                 mmStop, mmTaker, mmExit>>
  /\ UNCHANGED <<fpmVars, acVars>>

\* The handler of agentint.handshake records the guest's handshake.
MMHandshake(v) ==
  /\ mmExit = Nil
  /\ mmVms[v].running
  /\ v \notin mmHandshakes
  /\ mmHandshakes' = mmHandshakes \cup {v}
  /\ UNCHANGED <<mmCtxDone, mmAllVms, mmWarm, mmVms, mmNextId, mmFill, mmWatch,
                 mmStop, mmTaker, mmExit>>
  /\ UNCHANGED <<fpmVars, acVars>>

\* awaitHandshake, lines 240-244: the sleep ends and m.handshakes is read.
MMWatchExpire(v) ==
  /\ mmExit = Nil
  /\ mmWatch[v] = "sleeping"
  /\ mmWatch' = [mmWatch EXCEPT ![v] =
                   IF v \in mmHandshakes THEN "done" ELSE "stopping"]
  /\ UNCHANGED <<mmCtxDone, mmAllVms, mmWarm, mmVms, mmNextId, mmFill,
                 mmHandshakes, mmStop, mmTaker, mmExit>>
  /\ UNCHANGED <<fpmVars, acVars>>

\* Stop, lines 163-167: m.rootCancel(), then vm.shutDown() on every entry
\* of m.allVms; the entries stay in the map.  Called by the node, or by a
\* watchdog that saw no handshake (line 245).
MMStopBegin(k) ==
  /\ mmExit = Nil
  /\ mmStop[k] = "idle"
  /\ IF k = NodeCaller THEN MMCalls < MaxCalls ELSE mmWatch[k] = "stopping"
  /\ mmCtxDone' = TRUE
  /\ mmVms' = [v \in MMVmIds |->
                 IF v \in mmAllVms
                 THEN [running |-> FALSE, shutdowns |-> MMCount(mmVms[v].shutdowns)]
                 ELSE mmVms[v]]
  /\ mmStop' = [mmStop EXCEPT ![k] = "drain"]
  /\ UNCHANGED <<mmAllVms, mmWarm, mmNextId, mmFill, mmHandshakes, mmWatch,
                 mmTaker, mmExit>>
  /\ UNCHANGED <<fpmVars, acVars>>

\* No statement closes m.warmVms.
MMWarmClosed == FALSE

\* Stop, lines 172-179: for vm := range m.warmVms { vm.shutDown() }.  The
\* range ends when the channel is closed and empty; Stop then returns, and
\* a watchdog goes on to os.Exit(1) (line 246).
MMStopDrain(k) ==
  /\ mmExit = Nil
  /\ mmStop[k] = "drain"
  /\ MMCanRecv \/ MMWarmClosed
  /\ IF MMCanRecv
     THEN /\ MMRecv
          /\ mmVms' = MMShutDown(MMRecvVm)
          /\ UNCHANGED <<mmStop, mmExit>>
     ELSE /\ mmStop' = [mmStop EXCEPT ![k] = "returned"]
          /\ mmExit' = IF k = NodeCaller THEN mmExit ELSE "os.Exit(1)"
          /\ UNCHANGED <<mmWarm, mmFill, mmVms>>
  /\ UNCHANGED <<mmCtxDone, mmAllVms, mmNextId, mmHandshakes, mmWatch, mmTaker>>
  /\ UNCHANGED <<fpmVars, acVars>>

\* ============================================================== AgentClient
\* What a handshake message's payload can be: a HandshakeRequest with id and
\* message; bytes json.Unmarshal rejects; JSON without the id or message.
MsgKinds == {"valid", "malformed", "missingField"}

\* The agent id of the one agent client, which is the id of its vm.
AgentId == "vm1"

\* The subjects, a subject being the sequence of its dot-separated tokens.
\* fmt.Sprintf("agentint.%s.handshake", agentID), line 81
HandshakeSubject(id) == <<"agentint", id, "handshake">>
\* fmt.Sprintf("agentint.%s.events.*", agentID), line 87
EventsSubject(id) == <<"agentint", id, "events", "*">>
\* fmt.Sprintf("agentint.%s.logs", agentID), line 93
LogsSubject(id) == <<"agentint", id, "logs">>
\* fmt.Sprintf("agentint.%s.deploy", a.agentID), line 115
DeploySubject(id) == <<"agentint", id, "deploy">>
\* NexAgentSubjectAdvertise = "agentint.advertise", line 279
AdvertiseSubject == <<"agentint", "advertise">>
\* fmt.Sprintf("agentint.%s.workdispatch", a.md.VmId), line 334
WorkDispatchSubject(id) == <<"agentint", id, "workdispatch">>

\* NATS subject matching: token by token, "*" matches any one token.
SubjectMatches(pattern, subject) ==
  /\ Len(pattern) = Len(subject)
  /\ \A i \in 1 .. Len(pattern) : pattern[i] = "*" \/ pattern[i] = subject[i]

\* A message published on subject reaches a subscription of subs.
Subscribed(subs, subject) == \E pat \in subs : SubjectMatches(pat, subject)

\* NewAgentClient
InitAC ==
  /\ acStarted = FALSE
  /\ acHandshakeReceived = FALSE
  /\ acInbox = <<>>
  /\ acHandler = [pc |-> "idle"]
  /\ acWatchdog = [pc |-> "none", loaded |-> FALSE]
  /\ acCalls = <<>>
  /\ acResponses = 0
  /\ acPublished = 0
  /\ acCrashed = FALSE
  /\ acSubs = {}
  /\ acDeploy = [pc |-> "idle", reply |-> Nil, err |-> Nil,
                 accepted |-> FALSE, message |-> Nil]
  /\ acWorkloadStartedAt = FALSE
  /\ agent = "off"
  /\ agSubs = {}
  /\ agAdvertiseLost = FALSE
  /\ envResponder = FALSE
  /\ agWork = [pc |-> "idle", outcome |-> Nil]
  /\ agRequests = 0
  /\ agAcks = <<>>
  /\ agExecuted = {}

\* Start, lines 74-101: the subscriptions, then go a.awaitHandshake(agentID).
ACStart ==
  /\ ~acCrashed
  /\ ~acStarted
  /\ acStarted' = TRUE
  /\ acWatchdog' = [acWatchdog EXCEPT !.pc = "sleeping"]
  /\ acSubs' = {HandshakeSubject(AgentId), EventsSubject(AgentId),
                LogsSubject(AgentId)}
  /\ UNCHANGED <<acHandshakeReceived, acInbox, acHandler, acCalls,
                 acResponses, acPublished, acCrashed>>
  /\ UNCHANGED <<acDeploy, acWorkloadStartedAt, agent, agSubs,
                 agAdvertiseLost, envResponder>>
  /\ UNCHANGED <<fpmVars, mmVars>>
  /\ UNCHANGED agwVars

\* The guest publishes on agentint.<id>.handshake; the subscription of line
\* 81 queues the message for handleHandshake.
ACGuestPublish(kind) ==
  /\ ~acCrashed
  /\ acStarted
  /\ acPublished < MaxMsgs
  /\ acPublished' = acPublished + 1
  /\ acInbox' = Append(acInbox, kind)
  /\ UNCHANGED <<acStarted, acHandshakeReceived, acHandler, acWatchdog,
                 acCalls, acResponses, acCrashed>>
  /\ UNCHANGED <<fpmVars, mmVars>>
  /\ UNCHANGED agwVars
  /\ UNCHANGED acxVars

\* handleHandshake, lines 212-221: decode and log.  With a payload that
\* fails to decode req is nil at line 215, and without id or message the
\* field is nil at line 219: *req.ID is a nil dereference either way.
ACHandleDecode ==
  /\ ~acCrashed
  /\ acHandler.pc = "idle"
  /\ acInbox # <<>>
  /\ acInbox' = Tail(acInbox)
  /\ IF Head(acInbox) = "valid"
     THEN /\ acHandler' = [pc |-> "respond"]
          /\ UNCHANGED acCrashed
     ELSE /\ acCrashed' = TRUE
          /\ UNCHANGED acHandler
  /\ UNCHANGED <<acStarted, acHandshakeReceived, acWatchdog, acCalls,
                 acResponses, acPublished>>
  /\ UNCHANGED <<fpmVars, mmVars>>
  /\ UNCHANGED agwVars
  /\ UNCHANGED acxVars

\* handleHandshake without the return of line 226: a failed Respond goes on
\* to the Store and the callback.
ACHandleRespondNoReturn ==
  /\ ~acCrashed
  /\ acHandler.pc = "respond"
  /\ \E sent \in BOOLEAN :
       IF sent
       THEN /\ acResponses' = acResponses + 1
            /\ acHandler' = [pc |-> "store"]
       ELSE /\ acHandler' = [pc |-> "store"]
            /\ UNCHANGED acResponses
  /\ UNCHANGED <<acStarted, acHandshakeReceived, acInbox, acWatchdog, acCalls,
                 acPublished, acCrashed>>
  /\ UNCHANGED <<fpmVars, mmVars>>
  /\ UNCHANGED agwVars
  /\ UNCHANGED acxVars

\* handleHandshake, lines 223-227: msg.Respond(resp); on an error, return.
ACHandleRespond ==
  /\ ~acCrashed
  /\ acHandler.pc = "respond"
  /\ \E sent \in BOOLEAN :
       IF sent
       THEN /\ acResponses' = acResponses + 1
            /\ acHandler' = [pc |-> "store"]
       ELSE /\ acHandler' = [pc |-> "idle"]
            /\ UNCHANGED acResponses
  /\ UNCHANGED <<acStarted, acHandshakeReceived, acInbox, acWatchdog, acCalls,
                 acPublished, acCrashed>>
  /\ UNCHANGED <<fpmVars, mmVars>>
  /\ UNCHANGED agwVars
  /\ UNCHANGED acxVars

\* handleHandshake, line 229: a.handshakeReceived.Store(true)
ACHandleStore ==
  /\ ~acCrashed
  /\ acHandler.pc = "store"
  /\ acHandshakeReceived' = TRUE
  /\ acHandler' = [pc |-> "callback"]
  /\ UNCHANGED <<acStarted, acInbox, acWatchdog, acCalls, acResponses,
                 acPublished, acCrashed>>
  /\ UNCHANGED <<fpmVars, mmVars>>
  /\ UNCHANGED agwVars
  /\ UNCHANGED acxVars

\* handleHandshake, line 230: a.handshakeSucceeded(*req.ID)
ACHandleSucceeded ==
  /\ ~acCrashed
  /\ acHandler.pc = "callback"
  /\ acCalls' = Append(acCalls, "success")
  /\ acHandler' = [pc |-> "idle"]
  /\ UNCHANGED <<acStarted, acHandshakeReceived, acInbox, acWatchdog,
                 acResponses, acPublished, acCrashed>>
  /\ UNCHANGED <<fpmVars, mmVars>>
  /\ UNCHANGED agwVars
  /\ UNCHANGED acxVars

\* awaitHandshake, lines 205-206: the timeout elapses and the flag is read.
ACWatchdogLoad ==
  /\ ~acCrashed
  /\ acWatchdog.pc = "sleeping"
  /\ acWatchdog' = [pc |-> IF acHandshakeReceived THEN "done" ELSE "call",
                    loaded |-> acHandshakeReceived]
  /\ UNCHANGED <<acStarted, acHandshakeReceived, acInbox, acHandler, acCalls,
                 acResponses, acPublished, acCrashed>>
  /\ UNCHANGED <<fpmVars, mmVars>>
  /\ UNCHANGED agwVars
  /\ UNCHANGED acxVars

\* awaitHandshake, line 207: a.handshakeTimedOut(agentID)
ACWatchdogTimedOut ==
  /\ ~acCrashed
  /\ acWatchdog.pc = "call"
  /\ acCalls' = Append(acCalls, "timeout")
  /\ acWatchdog' = [acWatchdog EXCEPT !.pc = "done"]
  /\ UNCHANGED <<acStarted, acHandshakeReceived, acInbox, acHandler,
                 acResponses, acPublished, acCrashed>>
  /\ UNCHANGED <<fpmVars, mmVars>>
  /\ UNCHANGED agwVars
  /\ UNCHANGED acxVars

\* What a.nc.Request on the deploy subject can end in: with a responder on
\* the subject a reply (accepted, rejected, or bytes that do not decode),
\* and with or without one a deadline or another transport error.
DeployReplies ==
  IF Subscribed(agSubs, DeploySubject(AgentId)) \/ envResponder
  THEN {"accepted", "rejected", "garbage", "deadline", "error"}
  ELSE {"deadline", "error"}

\* DeployWorkload, lines 104-133.
ACDeployWorkload ==
  /\ ~acCrashed
  /\ acStarted
  /\ acDeploy.pc = "idle"
  /\ \E reply \in DeployReplies :
       /\ acDeploy' =
            CASE reply = "deadline" ->
                   [pc |-> "done", reply |-> reply, err |-> "Timeout",
                    accepted |-> FALSE, message |-> Nil]
              [] reply = "error" ->
                   [pc |-> "done", reply |-> reply, err |-> "TransportError",
                    accepted |-> FALSE, message |-> Nil]
              [] reply = "garbage" ->
                   [pc |-> "done", reply |-> reply, err |-> "ProtocolError",
                    accepted |-> FALSE, message |-> Nil]
              [] reply = "accepted" ->
                   [pc |-> "done", reply |-> reply, err |-> Nil,
                    accepted |-> TRUE, message |-> "Workload accepted"]
              [] reply = "rejected" ->
                   [pc |-> "done", reply |-> reply, err |-> Nil,
                    accepted |-> FALSE, message |-> "bad digest"]
       /\ acWorkloadStartedAt' =
            IF reply \in {"accepted", "rejected"} THEN TRUE
            ELSE acWorkloadStartedAt
  /\ UNCHANGED <<acStarted, acHandshakeReceived, acInbox, acHandler,
                 acWatchdog, acCalls, acResponses, acPublished, acCrashed>>
  /\ UNCHANGED <<acSubs, agent, agSubs, agAdvertiseLost, envResponder>>
  /\ UNCHANGED <<fpmVars, mmVars>>
  /\ UNCHANGED agwVars

\* A guest serves requests on agentint.<id>.deploy, the subject of line 115.
GuestServeDeploy ==
  /\ ~acCrashed
  /\ ~envResponder
  /\ envResponder' = TRUE
  /\ UNCHANGED <<acStarted, acHandshakeReceived, acInbox, acHandler,
                 acWatchdog, acCalls, acResponses, acPublished, acCrashed>>
  /\ UNCHANGED <<acSubs, acDeploy, acWorkloadStartedAt, agent, agSubs,
                 agAdvertiseLost>>
  /\ UNCHANGED <<fpmVars, mmVars>>
  /\ UNCHANGED agwVars

\* ==================================================== Agent (in the guest)
\* Agent.Start, line 329, and Advertise, lines 348-370: the AdvertiseMessage
\* is published on agentint.advertise.  It is queued for handleHandshake if
\* the handshake subscription matches that subject (it carries no id
\* field of a HandshakeRequest), and is dropped by the bus otherwise.
AgentAdvertise ==
  /\ ~acCrashed
  /\ agent = "off"
  /\ agent' = "advertised"
  /\ IF Subscribed(acSubs \cap {HandshakeSubject(AgentId)}, AdvertiseSubject)
     THEN /\ acInbox' = Append(acInbox, "missingField")
          /\ UNCHANGED agAdvertiseLost
     ELSE /\ agAdvertiseLost' = TRUE
          /\ UNCHANGED acInbox
  /\ UNCHANGED <<acStarted, acHandshakeReceived, acHandler, acWatchdog,
                 acCalls, acResponses, acPublished, acCrashed>>
  /\ UNCHANGED <<acSubs, acDeploy, acWorkloadStartedAt, agSubs, envResponder>>
  /\ UNCHANGED <<fpmVars, mmVars>>
  /\ UNCHANGED agwVars

\* Agent.Start, lines 334-339: subscribe to agentint.<vm>.workdispatch.
AgentSubscribe ==
  /\ ~acCrashed
  /\ agent = "advertised"
  /\ agent' = "started"
  /\ agSubs' = agSubs \cup {WorkDispatchSubject(AgentId)}
  /\ UNCHANGED <<acStarted, acHandshakeReceived, acInbox, acHandler,
                 acWatchdog, acCalls, acResponses, acPublished, acCrashed>>
  /\ UNCHANGED <<acSubs, acDeploy, acWorkloadStartedAt, agAdvertiseLost,
                 envResponder>>
  /\ UNCHANGED <<fpmVars, mmVars>>
  /\ UNCHANGED agwVars

\* What the steps of handleWorkDispatched come to for a request: the
\* payload does not decode, the artifact cannot be cached, the provider
\* factory fails, the provider's Validate fails, or all of them succeed.
WorkOutcomes ==
  {"undecodable", "cacheFailed", "providerFailed", "invalid", "ok"}

\* A request is published on agentint.<vm>.workdispatch (DispatchWork,
\* part_000 line 130) and the subscription of line 335 hands it to
\* handleWorkDispatched.
AgentWorkRequest(outcome) ==
  /\ ~acCrashed
  /\ Subscribed(agSubs, WorkDispatchSubject(AgentId))
  /\ agWork.pc = "idle"
  /\ agRequests < MaxMsgs
  /\ agRequests' = agRequests + 1
  /\ agWork' = [pc |-> "handling", outcome |-> outcome]
  /\ UNCHANGED <<agAcks, agExecuted>>
  /\ UNCHANGED <<acStarted, acHandshakeReceived, acInbox, acHandler,
                 acWatchdog, acCalls, acResponses, acPublished, acCrashed>>
  /\ UNCHANGED acxVars
  /\ UNCHANGED <<fpmVars, mmVars>>

\* handleWorkDispatched, lines 376-409: unmarshal, cache the artifact, make
\* the provider; each failure is answered workAck(m, false, msg) and ends
\* the handler.  A failure of provider.Validate() is logged (lines 404-407)
\* and the handler goes on to workAck(m, true, "Workload accepted").
\* workAck, lines 444-462: m.Respond may fail (sent = FALSE), which is
\* logged; the handler does not look at workAck's result.
AgentHandleWork ==
  /\ ~acCrashed
  /\ agWork.pc = "handling"
  /\ \E sent \in BOOLEAN :
       IF agWork.outcome \in {"undecodable", "cacheFailed", "providerFailed"}
       THEN /\ agAcks' = Append(agAcks, <<agWork.outcome, FALSE, sent>>)
            /\ agWork' = [pc |-> "idle", outcome |-> Nil]
       ELSE /\ agAcks' = Append(agAcks, <<agWork.outcome, TRUE, sent>>)
            /\ agWork' = [agWork EXCEPT !.pc = "execute"]
  /\ UNCHANGED <<agRequests, agExecuted>>
  /\ UNCHANGED <<acStarted, acHandshakeReceived, acInbox, acHandler,
                 acWatchdog, acCalls, acResponses, acPublished, acCrashed>>
  /\ UNCHANGED acxVars
  /\ UNCHANGED <<fpmVars, mmVars>>

\* handleWorkDispatched, lines 411-414: provider.Execute()
AgentWorkExecute ==
  /\ ~acCrashed
  /\ agWork.pc = "execute"
  /\ agExecuted' = agExecuted \cup {agWork.outcome}
  /\ agWork' = [pc |-> "idle", outcome |-> Nil]
  /\ UNCHANGED <<agRequests, agAcks>>
  /\ UNCHANGED <<acStarted, acHandshakeReceived, acInbox, acHandler,
                 acWatchdog, acCalls, acResponses, acPublished, acCrashed>>
  /\ UNCHANGED acxVars
  /\ UNCHANGED <<fpmVars, mmVars>>

\* =========================================================== specifications
Init == InitFPM /\ InitMM /\ InitAC

Next ==
  \/ StartCall
  \/ FillLoop
  \/ FillCreate
  \/ FillRegister
  \/ FillRegisterMutex
  \/ FillSend
  \/ \E p \in Preparers : PrepareCall(p)
  \/ \E p \in Preparers : PrepareRecv(p)
  \/ \E s \in Stoppers : \E id \in KnownIds \cup {UnknownId} : StopProcessCall(s, id)
  \/ \E s \in Stoppers : StopProcess(s)
  \/ \E c \in StopCallers : StopEnter(c)
  \/ \E c \in StopCallers : StopClose(c)
  \/ \E c \in StopCallers : StopRange(c)
  \/ \E c \in StopCallers : StopStopProcess(c)
  \/ EnterLameDuck
  \/ CancelCtx

\* The FirecrackerProcessManager.
Spec == Init /\ [][Next]_vars

NextMM ==
  \/ MMStart
  \/ MMFillSelect
  \/ MMFillCreate
  \/ MMFillSend
  \/ MMFillRegister
  \/ \E k \in Takers : MMTakeFromPool(k)
  \/ \E v \in MMVmIds : MMStopMachine(v)
  \/ \E v \in MMVmIds : MMHandshake(v)
  \/ \E v \in MMVmIds : MMWatchExpire(v)
  \/ \E k \in MMStopCallers : MMStopBegin(k)
  \/ \E k \in MMStopCallers : MMStopDrain(k)

\* The Go scheduler runs the goroutine of Start whenever it can take a step.
FairSpec ==
  /\ Spec
  /\ WF_vars(StartCall)
  /\ WF_vars(FillLoop)
  /\ WF_vars(FillCreate)
  /\ WF_vars(FillRegister)
  /\ WF_vars(FillRegisterMutex)
  /\ WF_vars(FillSend)

\* The manager as one turn of Start's loop and one PrepareWorkload that has
\* returned leave it: vm 1 is registered and carries the caller's request,
\* the warm channel is empty, the loop is back at its head, and the caller
\* is free to call again.
InitAssignedFPM ==
  /\ closing = 0
  /\ poolVMs = <<>>
  /\ poolClosed = FALSE
  /\ allVMs = {1}
  /\ stopMutex = {1}
  /\ deployRequests = MapPut(<< >>, 1, "p1")
  /\ vms = [v \in VmIds |->
              IF v = 1
              THEN [NewVm EXCEPT !.running = TRUE,
                                 !.deployRequest = "p1",
                                 !.namespace = ReqNamespace("p1"),
                                 !.workloadStarted = TRUE]
              ELSE NewVm]
  /\ essential = [r \in Preparers |-> TRUE]
  /\ mutex = Nil
  /\ ctxDone = FALSE
  /\ nextId = 2
  /\ credentials = {1}
  /\ started = {1}
  /\ fill = [pc |-> "loop", vm |-> Nil]
  /\ prep = [p \in Preparers |-> [pc |-> "idle", onClosed |-> FALSE,
                                  result |-> Nil, vm |-> Nil]]
  /\ stopper = [s \in Stoppers |-> [pc |-> "idle", id |-> Nil, result |-> Nil]]
  /\ stopCaller = [c \in StopCallers |->
                    [pc |-> "idle", teardown |-> FALSE, todo |-> {},
                     id |-> Nil, result |-> Nil]]
  /\ lameDuck = FALSE
  /\ t = [vm |-> 1,
          vcpu |-> AddPair(ZeroSeries, VcpuCount, ReqNamespace("p1")),
          mem |-> AddPair(ZeroSeries, MemSizeMib, ReqNamespace("p1")),
          workload |-> ZeroSeries, bytes |-> ZeroSeries]
  /\ crashed = Nil

InitAssigned == InitAssignedFPM /\ InitMM /\ InitAC

\* Start's loop, PrepareWorkload, StopProcess and the cancellation.
NextAssigned ==
  \/ FillLoop
  \/ FillCreate
  \/ FillRegister
  \/ FillRegisterMutex
  \/ FillSend
  \/ \E p \in Preparers : PrepareCall(p)
  \/ \E p \in Preparers : PrepareRecv(p)
  \/ \E s \in Stoppers : \E id \in KnownIds \cup {UnknownId} : StopProcessCall(s, id)
  \/ \E s \in Stoppers : StopProcess(s)
  \/ CancelCtx

\* The manager with a vm assigned, and every goroutine that can take a step
\* taking it: the loop of Start, a receive that has a value to take, a
\* caller of StopProcess for whom f.mutex is free.
FairSpecAssigned ==
  /\ InitAssigned
  /\ [][NextAssigned]_vars
  /\ WF_vars(FillLoop)
  /\ WF_vars(FillCreate)
  /\ WF_vars(FillRegister)
  /\ WF_vars(FillRegisterMutex)
  /\ WF_vars(FillSend)
  /\ \A p \in Preparers : WF_vars(PrepareRecv(p))
  /\ \A s \in Stoppers : WF_vars(StopProcess(s))

\* The two warm pools, each with its fill loop and its consumer.
NextPools ==
  \/ StartCall
  \/ FillLoop
  \/ FillCreate
  \/ FillRegister
  \/ FillRegisterMutex
  \/ FillSend
  \/ \E p \in Preparers : PrepareCall(p)
  \/ \E p \in Preparers : PrepareRecv(p)
  \/ MMStart
  \/ MMFillSelect
  \/ MMFillCreate
  \/ MMFillSend
  \/ MMFillRegister
  \/ \E k \in Takers : MMTakeFromPool(k)

SpecPools == Init /\ [][NextPools]_vars

\* The MachineManager.
SpecMM == Init /\ [][NextMM]_vars

\* The Go scheduler runs every goroutine that can take a step: the fill
\* loop, the watchdogs once their sleep is over, and Stop's loops.
FairSpecMM ==
  /\ SpecMM
  /\ WF_vars(MMStart)
  /\ WF_vars(MMFillSelect)
  /\ WF_vars(MMFillCreate)
  /\ WF_vars(MMFillSend)
  /\ WF_vars(MMFillRegister)
  /\ \A v \in MMVmIds : WF_vars(MMWatchExpire(v))
  /\ \A k \in MMStopCallers : WF_vars(MMStopBegin(k))
  /\ \A k \in MMStopCallers : WF_vars(MMStopDrain(k))

NextAgent ==
  \/ ACStart
  \/ \E kind \in MsgKinds : ACGuestPublish(kind)
  \/ ACHandleDecode
  \/ ACHandleRespond
  \/ ACHandleStore
  \/ ACHandleSucceeded
  \/ ACWatchdogLoad
  \/ ACWatchdogTimedOut
  \/ ACDeployWorkload
  \/ GuestServeDeploy
  \/ AgentAdvertise
  \/ AgentSubscribe

\* The AgentClient.
SpecAgent == Init /\ [][NextAgent]_vars

\* The in-guest agent: its start and its handling of work requests.
NextGuest ==
  \/ AgentAdvertise
  \/ AgentSubscribe
  \/ \E outcome \in WorkOutcomes : AgentWorkRequest(outcome)
  \/ AgentHandleWork
  \/ AgentWorkExecute

SpecGuest == Init /\ [][NextGuest]_vars

\* =================================================================== claims
\* The vm ids that were ever put into f.allVMs: StopProcess is the only
\* statement that removes one, and it calls shutdown() first.
EverRegistered == allVMs \cup {v \in VmIds : vms[v].shutdowns > 0}

\* C1: after the Stop call that ran the teardown has returned, shutdown()
\* has been invoked exactly once on every vm that was ever registered.
C1_StopShutsDownEveryVm ==
  \A c \in StopCallers :
    (stopCaller[c].pc = "done" /\ stopCaller[c].teardown)
      => \A v \in EverRegistered : vms[v].shutdowns = 1

\* No PrepareWorkload or StopProcess call is in progress and every vm that
\* was stamped with a deploy request has been stopped.
AllPreparedStopped ==
  /\ \A p \in Preparers : prep[p].pc \in {"idle", "done"}
  /\ \A s \in Stoppers : stopper[s].pc \in {"idle", "done"}
  /\ \A c \in StopCallers : stopCaller[c].pc \in {"idle", "done"}
  /\ \A v \in VmIds : vms[v].deployRequest # Nil => vms[v].shutdowns > 0

\* C2: once every prepared vm has been stopped the vCPU, memory, workload
\* and deployed-bytes counters are back at their initial value, also after
\* a StopProcess on a vm that was never prepared.
C2_ZeroNetDrift ==
  AllPreparedStopped =>
    /\ t.vcpu = ZeroSeries
    /\ t.mem = ZeroSeries
    /\ t.workload = ZeroSeries
    /\ t.bytes = ZeroSeries

\* C3: a PrepareWorkload called after the warm channel was closed returns
\* the no-VM error and assigns no vm.
C3_ClosedPoolNoVm ==
  \A p \in Preparers :
    (prep[p].pc = "done" /\ prep[p].onClosed)
      => (prep[p].result = "NoVmAvailable" /\ prep[p].vm = Nil)

\* The state of vm v as the manager's maps show it.
VmState(v) ==
  IF v \in DOMAIN deployRequests THEN "Assigned"
  ELSE IF vms[v].shutdowns > 0 THEN "Gone"
  ELSE IF v \in allVMs THEN "Warm"
  ELSE "None"

\* The order of I2 (Running and Stopping lie between Assigned and Gone).
StateRank(st) ==
  CASE st = "None" -> 0
    [] st = "Warm" -> 1
    [] st = "Assigned" -> 2
    [] st = "Gone" -> 5

\* C4: no step moves a vm backward in Warm -> Assigned -> Running ->
\* Stopping -> Gone; a vm that is Gone is never stamped with a deploy
\* request.
C4_MonotonicStates ==
  [][\A v \in VmIds :
       /\ StateRank(VmState(v))' >= StateRank(VmState(v))
       /\ (vms[v].shutdowns > 0 /\ v \notin allVMs)
            => vms'[v].deployRequest = vms[v].deployRequest]_vars

\* C8: once EnterLameDuck has been called a turn of the fill loop's head
\* does not go on to create a vm (an iteration already in flight may
\* finish), and the call itself removes no vm from the maps.
C8_LameDuckStopsRefill ==
  [][/\ (lameDuck /\ fill.pc = "loop") => fill'.pc # "create"
     /\ (~lameDuck /\ lameDuck') => (allVMs' = allVMs
                                      /\ deployRequests' = deployRequests)]_vars

\* The vms shutdown() was invoked on, and the calls that stamped a vm.
ShutDownVms == {v \in VmIds : vms[v].shutdowns > 0}
OkPrepares == {p \in Preparers : prep[p].result = "ok"}
\* The StopProcess calls for vm v that returned nil.
OkStops(v) ==
  {s \in Stoppers : stopper[s].pc = "done" /\ stopper[s].id = v
                      /\ stopper[s].result = "ok"}

C10_StopIdempotent ==
  /\ Cardinality({c \in StopCallers : stopCaller[c].teardown}) <= 1
  /\ crashed # "close of closed channel"
  /\ \A c \in StopCallers :
       /\ stopCaller[c].pc = "done" => stopCaller[c].result = "ok"
       /\ stopCaller[c].pc \in {"close", "range", "stop"} => stopCaller[c].teardown
  /\ poolClosed => \E c \in StopCallers : stopCaller[c].teardown

\* Two Stop calls have returned; one of them ran the teardown.
C10_Witness ==
  \E c1, c2 \in StopCallers :
    /\ c1 # c2
    /\ stopCaller[c1].pc = "done" /\ stopCaller[c1].teardown
    /\ stopCaller[c2].pc = "done" /\ ~stopCaller[c2].teardown
    /\ poolClosed
    /\ closing = 2

\* ----------------------------------------------------------- agent client
\* The callbacks of one kind invoked so far.
CallCount(kind) == Cardinality({i \in 1 .. Len(acCalls) : acCalls[i] = kind})

\* C5: when the watchdog finds handshakeReceived false at the deadline,
\* handshakeTimedOut is invoked exactly once and handshakeSucceeded never.
C5_TimeoutThenNoSuccess ==
  (acWatchdog.pc \in {"call", "done"} /\ ~acWatchdog.loaded)
    => /\ CallCount("success") = 0
       /\ CallCount("timeout") <= 1
       /\ acWatchdog.pc = "done" => CallCount("timeout") = 1

\* C6: handshakeTimedOut is never invoked after handshakeSucceeded.
C6_NoTimeoutAfterSuccess ==
  \A i, j \in 1 .. Len(acCalls) :
    i < j => ~(acCalls[i] = "success" /\ acCalls[j] = "timeout")

\* --------------------------------------------------------- machine manager
\* C7: a watchdog that saw no handshake calls Stop and then ends the node
\* process with a non-zero exit code: the exit is eventually reached.
C7_TimeoutExitsNode ==
  \A v \in MMVmIds : (mmWatch[v] = "stopping") ~> (mmExit # Nil)

\* ------------------------------------------- process manager, continued
\* C11: the warm channel never holds more than MachinePoolSize vms, and the
\* fill loop has a vm in the making only while the channel has room for
\* it, so that its send finds a free slot.
C11_PoolLengthBounded ==
  /\ Len(poolVMs) \in 0 .. PoolSize
  /\ fill.pc \in {"create", "register", "register2", "send"}
       => Len(poolVMs) < PoolSize

\* The channel is full again after a PrepareWorkload took a vm from it.
C11_Witness ==
  /\ Len(poolVMs) = PoolSize
  /\ \E p \in Preparers : prep[p].result = "ok"

\* The vm ids buffered in the warm channel.
InPool == {poolVMs[i] : i \in 1 .. Len(poolVMs)}

\* C12: no vm id is at the same time buffered in the warm channel and a key
\* of the deploy-request map.
C12_WarmAssignedDisjoint ==
  InPool \cap DOMAIN deployRequests = {}

\* One vm carries a deploy request while another waits in the channel.
C12_Witness ==
  /\ DOMAIN deployRequests # {}
  /\ InPool # {}

\* C13: a StopProcess for an id that is not in f.allVMs returns the
\* not-found error and changes nothing: no vm object, no map, no counter,
\* nor the channel or the credentials.
C13_StopUnknownNoEffect ==
  [][\A s \in Stoppers :
       (stopper[s].pc = "lock" /\ stopper'[s].pc = "done"
          /\ stopper[s].id \notin allVMs)
         => /\ stopper'[s].result = "NotFound"
            /\ UNCHANGED <<vms, allVMs, deployRequests, stopMutex, t,
                           poolVMs, credentials>>]_vars

\* A StopProcess returned the not-found error while vms were registered.
C13_Witness ==
  \E s \in Stoppers :
    /\ stopper[s].pc = "done"
    /\ stopper[s].result = "NotFound"
    /\ stopper[s].id \notin allVMs
    /\ allVMs # {}

\* C14: after a StopProcess that returned nil, shutdown() has been invoked
\* on the vm and nothing refers to its id any more: not f.allVMs, not
\* f.deployRequests, not f.stopMutex, and not the credentials minted for
\* it on the internal bus.
C14_StopReleasesEverything ==
  \A s \in Stoppers :
    (stopper[s].pc = "done" /\ stopper[s].result = "ok")
      => /\ vms[stopper[s].id].shutdowns > 0
         /\ stopper[s].id \notin allVMs
         /\ stopper[s].id \notin DOMAIN deployRequests
         /\ stopper[s].id \notin stopMutex
         /\ stopper[s].id \notin credentials

\* C15: the fill loop never executes its send on a channel that Stop has
\* closed, whatever the interleaving of Stop with an iteration that has
\* passed its check of f.closing.
C15_NoSendAfterClose ==
  [][(fill.pc = "send" /\ fill'.pc # "send") => ~poolClosed]_vars

\* C16: a panic in the fill loop does not end it: Start is found ended by a
\* recovered panic only when the manager is closing or cancelled.
C16_PanicRestartsLoop ==
  fill.pc = "recovered" => (stopping \/ ctxDone)

\* C17: an iteration of the fill loop that fails (credentials, vm creation,
\* seed, metadata) registers and enqueues nothing and announces no vm, and
\* the loop goes on: it is back at its head, and the next uuid is a fresh
\* one.  (A panic is not a failure return: see C16.)
C17_CreationFailureContinues ==
  [][(fill.pc = "create" /\ fill'.pc \notin {"create", "register", "recovered"})
       => /\ fill'.pc = "loop"
          /\ nextId' = nextId + 1
          /\ UNCHANGED <<allVMs, stopMutex, poolVMs, started, t>>]_vars

\* The iteration for id v failed and a later iteration registered a vm
\* under another id.
C17_Witness ==
  \E v, w \in VmIds :
    /\ v < w
    /\ v \notin allVMs /\ v \notin started /\ vms[v].shutdowns = 0
    /\ w \in allVMs
    /\ fill.pc # "recovered"

\* An iteration of the fill loop drew an id and registered no vm under it.
CreationFailed ==
  \E v \in 1 .. (nextId - 1) :
    /\ (fill.pc \in {"register", "register2", "send"} => v # fill.vm)
    /\ v \notin allVMs
    /\ vms[v].shutdowns = 0

\* The run so far is the one of scenario S1: no PrepareWorkload call, no
\* creation failure or panic, no Stop, no cancellation.
Undisturbed ==
  /\ \A p \in Preparers : prep[p].pc = "idle"
  /\ ~CreationFailed
  /\ fill.pc # "recovered"
  /\ ~stopping /\ ~ctxDone /\ crashed = Nil

\* C18: without creation failures and PrepareWorkload calls the fill loop
\* eventually brings the warm channel to MachinePoolSize vms; while the
\* length stays there it draws no further id; and as long as no
\* PrepareWorkload was called ListProcesses returns the empty list.
C18_PoolFillsToCapacity ==
  /\ <>(Len(poolVMs) = PoolSize \/ ~Undisturbed)
  /\ [][(Len(poolVMs) = PoolSize /\ Len(poolVMs') = PoolSize)
          => nextId' = nextId]_vars
  /\ []((\A p \in Preparers : prep[p].pc = "idle") => ListProcesses = {})

\* The channel is full, the loop idles at its head, nothing is listed.
C18_Witness ==
  /\ Undisturbed
  /\ Len(poolVMs) = PoolSize
  /\ fill.pc = "loop"
  /\ Cardinality(allVMs) = PoolSize
  /\ ListProcesses = {}

\* The PrepareWorkload calls that returned nil having received vm v.
PreparedBy(v) ==
  {p \in Preparers : prep[p].result = "ok" /\ prep[p].vm = v}

\* C19: ListProcesses has exactly one entry for every registered vm that a
\* PrepareWorkload gave a deploy request, with that request's workload
\* name and namespace; it has no entry for a registered vm that is still
\* warm, nor for an id that is not (or no longer) in f.allVMs.
C19_ListProcessesAssignedOnly ==
  \A v \in VmIds \cup {UnknownId} :
    LET entries == {e \in ListProcesses : e.ID = v}
    IN IF v \in allVMs /\ PreparedBy(v) # {}
       THEN /\ Cardinality(entries) = 1
            /\ \A e \in entries : \A p \in PreparedBy(v) :
                 /\ e.Name = ReqWorkloadName(p)
                 /\ e.Namespace = ReqNamespace(p)
                 /\ e.DeployRequest = p
       ELSE entries = {}

\* One vm is listed while another registered vm is warm and not listed.
C19_Witness ==
  /\ ListProcesses # {}
  /\ \E v \in allVMs : vms[v].deployRequest = Nil
  /\ Cardinality(ListProcesses) < Cardinality(allVMs)

\* C20: a PrepareWorkload completes only by taking the head of the warm
\* channel, a vm no other call was given, or, with the channel closed and
\* empty, by returning the no-VM error; with the channel open and empty
\* the caller stays blocked.
C20_PrepareRaceOneWinner ==
  [][\A p \in Preparers :
       (prep[p].pc = "recv" /\ prep'[p].pc = "done")
         => IF poolVMs # <<>>
            THEN /\ prep'[p].result = "ok"
                 /\ prep'[p].vm = Head(poolVMs)
                 /\ poolVMs' = Tail(poolVMs)
                 /\ \A q \in Preparers \ {p} :
                      prep[q].result = "ok" => prep[q].vm # Head(poolVMs)
            ELSE /\ poolClosed
                 /\ prep'[p].result = "NoVmAvailable"
                 /\ prep'[p].vm = Nil]_vars

\* One caller was given the only warm vm; the other is blocked in its
\* receive on the open, empty channel.
C20_Witness ==
  \E p, q \in Preparers :
    /\ p # q
    /\ prep[p].pc = "done" /\ prep[p].result = "ok"
    /\ prep[q].pc = "recv"
    /\ poolVMs = <<>> /\ ~poolClosed

\* C21: once the root context is cancelled no vm is sent on the warm
\* channel any more, also not by an iteration that had passed the select of
\* line 157 before the cancellation.
C21_CancelStopsEnqueue ==
  [][ctxDone => Len(poolVMs') <= Len(poolVMs)]_vars

\* ------------------------------------------------- agent client, continued
\* C22: when the guest's reply to the deploy request says accepted=false,
\* DeployWorkload returns the rejection as an error carrying the guest's
\* message, and does not record the workload as started.
C22_DeployRejected ==
  (acDeploy.pc = "done" /\ acDeploy.reply = "rejected")
    => /\ acDeploy.err = "Dispatch.Rejected"
       /\ acDeploy.message = "bad digest"
       /\ ~acWorkloadStartedAt


\* The handler is past a successful Respond and has not yet called back.
HandlerPastRespond == IF acHandler.pc \in {"store", "callback"} THEN 1 ELSE 0

\* C23: the handshake response is sent before the flag is stored and before
\* handshakeSucceeded is called: every Store and every success callback have
\* their own sent response behind them, so a handling whose Respond failed
\* stores nothing and calls nothing, and with no response sent the flag is
\* false and no success was reported.
C23_RespondBeforeSuccess ==
  /\ CallCount("success") + HandlerPastRespond = acResponses
  /\ acHandshakeReceived => acResponses >= 1
  /\ acHandler.pc = "callback" => acHandshakeReceived
  /\ acResponses = 0 => (~acHandshakeReceived /\ CallCount("success") = 0)

\* A valid handshake was handled and its Respond failed: the handler is back
\* at rest with nothing sent.
C23_Witness ==
  /\ ~acCrashed
  /\ acPublished = 1
  /\ acInbox = <<>>
  /\ acHandler.pc = "idle"
  /\ acResponses = 0
  /\ ~acHandshakeReceived
  /\ CallCount("success") = 0

\* C24: handshakeSucceeded is invoked at most once for the agent, however
\* many valid handshakes the guest publishes.
C24_SuccessAtMostOnce == CallCount("success") <= 1


\* ------------------------------------------------------ process manager II
\* C25: Start returns to its caller once the first turn of the fill loop
\* has put a vm on the warm channel; it does not stay in the call until the
\* manager is stopped or the root context is cancelled.
C25_StartReturnsAfterFirstTick ==
  (Len(poolVMs) > 0 /\ closing = 0 /\ ~ctxDone)
    ~> (fill.pc \in {"returned", "recovered"} \/ closing > 0 \/ ctxDone)


\* ---------------------------------------------- agent client and its guest
\* C26: with the agent client and the in-guest agent of the same vm both
\* started, the subject of the node's deploy request is one the guest is
\* subscribed to, and the subject the guest publishes its first message on
\* is one the node's handshake handler is subscribed to.
C26_SubjectsAgree ==
  (acStarted /\ agent = "started")
    => /\ Subscribed(agSubs, DeploySubject(AgentId))
       /\ Subscribed(acSubs \cap {HandshakeSubject(AgentId)}, AdvertiseSubject)


\* ----------------------------------------------------- process manager III
\* C27: PrepareWorkload never stamps a deploy request on a vm whose
\* shutdown() was already invoked: a vm stopped while it was still buffered
\* in the warm channel is not received and assigned later.
C27_NoAssignAfterShutdown ==
  [][\A v \in VmIds :
       (vms[v].deployRequest = Nil /\ vms'[v].deployRequest # Nil)
         => vms[v].shutdowns = 0]_vars


\* C28: a StopProcess call on a registered vm returns in the end, also
\* while a PrepareWorkload waits on the empty warm channel holding f.mutex
\* and the loop of Start has ended (a crash of the node, or the loop held
\* at the end of the supply of vm ids, aside).
C28_StopProcessNotBlocked ==
  \A s \in Stoppers :
    (stopper[s].pc = "lock" /\ stopper[s].id \in allVMs)
      ~> (\/ stopper[s].pc = "done"
          \/ crashed # Nil
          \/ (fill.pc = "create" /\ nextId > MaxVMs))


\* C29: every vm the fill loop has created and booted is registered in
\* f.allVMs or shut down, the one vm between its creation and line 197
\* aside: no running vm is outside the map for good.
C29_CreatedRegisteredOrShutDown ==
  \A v \in VmIds :
    vms[v].running => (v \in allVMs \/ (fill.pc = "register" /\ fill.vm = v))


\* -------------------------------------------------------- the warm pools
\* The vms without a workload a pool holds: those buffered in the warm
\* channel and the one its fill loop has created and not yet sent.
WarmHeld ==
  Len(poolVMs) + (IF fill.pc \in {"register", "register2", "send"} THEN 1 ELSE 0)
MMWarmHeld == Len(mmWarm) + (IF mmFill.pc = "send" THEN 1 ELSE 0)

\* C30: the vms without a workload (buffered in the warm channel, plus the
\* one the fill loop has created and not yet enqueued) never number more
\* than the configured pool size, whatever the interleaving of the fill
\* loop with the calls that take a vm.
C30_WarmVmsBounded ==
  /\ WarmHeld <= PoolSize
  /\ MMWarmHeld <= MMPoolSize

\* Both pools hold as many vms as the pool size allows, the MachineManager's
\* with its fill loop waiting to send, and a PrepareWorkload has taken a vm
\* from the process manager's.
C30_Witness ==
  /\ WarmHeld = PoolSize
  /\ MMWarmHeld = MMPoolSize
  /\ mmFill.pc = "send"
  /\ \E p \in Preparers : prep[p].pc = "done" /\ prep[p].result = "ok"


\* ------------------------------------------------------ the in-guest agent
\* C31: every work request is acknowledged exactly once; accepted=true is
\* answered only to a request that was decoded, whose artifact was cached,
\* whose provider was made and whose validation succeeded; a workload whose
\* validation fails is not executed.
C31_AckOnceAcceptedOnlyValid ==
  /\ Len(agAcks) + (IF agWork.pc = "handling" THEN 1 ELSE 0) = agRequests
  /\ \A i \in 1 .. Len(agAcks) : agAcks[i][2] => agAcks[i][1] = "ok"
  /\ "invalid" \notin agExecuted


\* ------------------------------------------------ agent client, continued
\* C32: a handshake message whose payload does not decode, or that lacks
\* the id or the message field, is dropped by handleHandshake without a
\* fault: the step that takes it off the subscription sends no response,
\* leaves handshakeReceived as it is, calls nothing, and leaves the handler
\* ready for the next message.
C32_MalformedHandshakeDropped ==
  [][(/\ acHandler.pc = "idle"
      /\ acInbox # <<>>
      /\ Head(acInbox) # "valid"
      /\ acInbox' = Tail(acInbox))
       => /\ ~acCrashed'
          /\ acResponses' = acResponses
          /\ acHandshakeReceived' = acHandshakeReceived
          /\ acCalls' = acCalls
          /\ acHandler'.pc = "idle"]_vars

====
